---- MODULE Spec2Model ----
(***************************************************************************)
(* japanese-text-utils: character classification, script/width conversion  *)
(* and statistics over JavaScript strings.                                 *)
(*                                                                         *)
(* A string is a sequence of UTF-16 code units (naturals below 65536), as  *)
(* in the JavaScript runtime: text[i], text.length, charCodeAt and a       *)
(* RegExp without the u flag work on code units, while the spread          *)
(* [...text] iterates code points (a surrogate pair is one element).       *)
(***************************************************************************)
EXTENDS Integers, Sequences, FiniteSets, TLC

\* Longest input string, in code units.
MaxLen == 3

\* U+FF9E HALFWIDTH KATAKANA VOICED SOUND MARK, U+FF9F SEMI-VOICED.
DAKUTEN == 65438
HANDAKUTEN == 65439

\* Offsets of the block conversions: 0x60 and 0xFEE0.
KanaOffset == 96
WidthOffset == 65248

-----------------------------------------------------------------------------
(* JavaScript string primitives *)

IsHighSurrogate(u) == u >= 55296 /\ u <= 56319     \* D800..DBFF
IsLowSurrogate(u) == u >= 56320 /\ u <= 57343      \* DC00..DFFF

\* String.fromCharCode(n): the code unit n modulo 2^16.
fromCharCode(n) == n % 65536

\* [...text]: the string iterator; each element is a string of one code
\* unit, or of two when a high surrogate is followed by a low surrogate.
RECURSIVE Spread(_)
Spread(text) ==
    IF text = << >> THEN << >>
    ELSE IF Len(text) >= 2 /\ IsHighSurrogate(text[1]) /\ IsLowSurrogate(text[2])
         THEN << SubSeq(text, 1, 2) >> \o Spread(SubSeq(text, 3, Len(text)))
         ELSE << SubSeq(text, 1, 1) >> \o Spread(Tail(text))

\* The elements of an array.
Range(chars) == { chars[k] : k \in DOMAIN chars }

\* text.replace(/[class]/g, ch => String.fromCharCode(ch.charCodeAt(0) + d)):
\* without the u flag the class is matched against each code unit.
ReplaceEach(text, class, d) ==
    [k \in 1..Len(text) |-> IF text[k] \in class THEN fromCharCode(text[k] + d)
                                                  ELSE text[k]]

-----------------------------------------------------------------------------
(* Character type detection *)

isHiragana(char) ==
    IF Len(char) = 0 THEN FALSE
    ELSE LET code == char[1] IN code >= 12352 /\ code <= 12447   \* 3040..309F

\* Variant whose range starts at the hiragana block.
IsKatakana_FromHiragana(char) ==
    IF Len(char) = 0 THEN FALSE
    ELSE LET code == char[1] IN code >= 12352 /\ code <= 12543

isKatakana(char) ==
    IF Len(char) = 0 THEN FALSE
    ELSE LET code == char[1] IN code >= 12448 /\ code <= 12543   \* 30A0..30FF

isKanji(char) ==
    IF Len(char) = 0 THEN FALSE
    ELSE LET code == char[1] IN
         \/ (code >= 19968 /\ code <= 40879)       \* 4E00..9FAF
         \/ (code >= 13312 /\ code <= 19903)       \* 3400..4DBF
         \/ (code >= 131072 /\ code <= 173791)     \* 20000..2A6DF

\* Variant with the threshold off by one.
IsFullWidth_From255(char) ==
    IF Len(char) = 0 THEN FALSE
    ELSE LET code == char[1] IN code >= 255

isFullWidth(char) ==
    IF Len(char) = 0 THEN FALSE
    ELSE LET code == char[1] IN code > 255

\* Variant that takes halfwidth to mean ASCII.
IsHalfWidth_Ascii(char) ==
    IF Len(char) = 0 THEN FALSE
    ELSE char[1] <= 127

isHalfWidth(char) ==
    IF Len(char) = 0 THEN FALSE
    ELSE ~isFullWidth(char)

\* Variant without the empty-string guard.
IsAllHiragana_Vacuous(text) == \A char \in Range(Spread(text)) : isHiragana(char)

isAllHiragana(text) ==
    IF Len(text) = 0 THEN FALSE ELSE \A char \in Range(Spread(text)) : isHiragana(char)

isAllKatakana(text) ==
    IF Len(text) = 0 THEN FALSE ELSE \A char \in Range(Spread(text)) : isKatakana(char)

\* Variant without the empty-string guard.
IsAllKanji_Vacuous(text) == \A char \in Range(Spread(text)) : isKanji(char)

isAllKanji(text) ==
    IF Len(text) = 0 THEN FALSE ELSE \A char \in Range(Spread(text)) : isKanji(char)

-----------------------------------------------------------------------------
(* Character conversion *)

\* The character classes of the regular expressions, as sets of code units.
HiraganaClass == 12353..12438                      \* [\u3041-\u3096]
KatakanaClass == 12449..12534                      \* [\u30a1-\u30f6]
FullAlnumClass == (65313..65338) \cup (65345..65370) \cup (65296..65305)
HalfAlnumClass == (65..90) \cup (97..122) \cup (48..57)

\* Variant without the character class: every code unit is shifted.
HiraganaToKatakana_NoClass(text) ==
    [k \in 1..Len(text) |-> fromCharCode(text[k] + KanaOffset)]

\* Variant with the sign of the offset reversed.
HiraganaToKatakana_Minus(text) == ReplaceEach(text, HiraganaClass, 0 - KanaOffset)

hiraganaToKatakana(text) == ReplaceEach(text, HiraganaClass, KanaOffset)

\* Variant whose class stops one short of U+30F6.
KatakanaToHiragana_ShortClass(text) ==
    [k \in 1..Len(text) |->
        IF text[k] >= 12449 /\ text[k] <= 12533 THEN fromCharCode(text[k] - KanaOffset)
                                                ELSE text[k]]

katakanaToHiragana(text) == ReplaceEach(text, KatakanaClass, 0 - KanaOffset)

\* Variant whose class has the letters only.
FullToHalfAlphanumeric_NoDigits(text) ==
    [k \in 1..Len(text) |->
        IF (text[k] >= 65313 /\ text[k] <= 65338) \/ (text[k] >= 65345 /\ text[k] <= 65370)
        THEN fromCharCode(text[k] - WidthOffset)
        ELSE text[k]]

fullToHalfAlphanumeric(text) == ReplaceEach(text, FullAlnumClass, 0 - WidthOffset)

halfToFullAlphanumeric(text) == ReplaceEach(text, HalfAlnumClass, WidthOffset)

\* The halfToFull table of halfToFullKatakana.
halfToFull ==
    (65393 :> 12450) @@ (65394 :> 12452) @@ (65395 :> 12454) @@ (65396 :> 12456) @@
    (65397 :> 12458) @@ (65398 :> 12459) @@ (65399 :> 12461) @@ (65400 :> 12463) @@
    (65401 :> 12465) @@ (65402 :> 12467) @@ (65403 :> 12469) @@ (65404 :> 12471) @@
    (65405 :> 12473) @@ (65406 :> 12475) @@ (65407 :> 12477) @@ (65408 :> 12479) @@
    (65409 :> 12481) @@ (65410 :> 12484) @@ (65411 :> 12486) @@ (65412 :> 12488) @@
    (65413 :> 12490) @@ (65414 :> 12491) @@ (65415 :> 12492) @@ (65416 :> 12493) @@
    (65417 :> 12494) @@ (65418 :> 12495) @@ (65419 :> 12498) @@ (65420 :> 12501) @@
    (65421 :> 12504) @@ (65422 :> 12507) @@ (65423 :> 12510) @@ (65424 :> 12511) @@
    (65425 :> 12512) @@ (65426 :> 12513) @@ (65427 :> 12514) @@ (65428 :> 12516) @@
    (65429 :> 12518) @@ (65430 :> 12520) @@ (65431 :> 12521) @@ (65432 :> 12522) @@
    (65433 :> 12523) @@ (65434 :> 12524) @@ (65435 :> 12525) @@ (65436 :> 12527) @@
    (65382 :> 12530) @@ (65437 :> 12531) @@ (65383 :> 12449) @@ (65384 :> 12451) @@
    (65385 :> 12453) @@ (65386 :> 12455) @@ (65387 :> 12457) @@ (65388 :> 12515) @@
    (65389 :> 12517) @@ (65390 :> 12519) @@ (65391 :> 12483) @@ (65392 :> 12540) @@
    (65377 :> 12290) @@ (65378 :> 12300) @@ (65379 :> 12301) @@ (65380 :> 12289) @@
    (65381 :> 12539) @@ (65438 :> 12443) @@ (65439 :> 12444)

\* The dakutenMap of addDakuten and the handakutenMap of addHandakuten.
dakutenMap ==
    (12459 :> 12460) @@ (12461 :> 12462) @@ (12463 :> 12464) @@ (12465 :> 12466) @@
    (12467 :> 12468) @@ (12469 :> 12470) @@ (12471 :> 12472) @@ (12473 :> 12474) @@
    (12475 :> 12476) @@ (12477 :> 12478) @@ (12479 :> 12480) @@ (12481 :> 12482) @@
    (12484 :> 12485) @@ (12486 :> 12487) @@ (12488 :> 12489) @@ (12495 :> 12496) @@
    (12498 :> 12499) @@ (12501 :> 12502) @@ (12504 :> 12505) @@ (12507 :> 12508)

handakutenMap ==
    (12495 :> 12497) @@ (12498 :> 12500) @@ (12501 :> 12503) @@ (12504 :> 12506) @@
    (12507 :> 12509)

\* Variant without the fallback to the character itself (-1 for undefined).
Lookup_NoFallback(map, u) == IF u \in DOMAIN map THEN map[u] ELSE -1

\* map[char] || char
Lookup(map, u) == IF u \in DOMAIN map THEN map[u] ELSE u

\* Variant without the fallback to the character itself (-1 for undefined).
AddDakuten_NoFallback(char) == IF char \in DOMAIN dakutenMap THEN dakutenMap[char] ELSE -1

addDakuten(char) == Lookup(dakutenMap, char)

\* Variant that consults the dakuten table for the handakuten mark.
AddHandakuten_DakutenTable(char) == Lookup(dakutenMap, char)

addHandakuten(char) == Lookup(handakutenMap, char)

\* The loop of halfToFullKatakana from cursor i with the output so far.
RECURSIVE halfToFullKatakanaFrom(_, _, _)
halfToFullKatakanaFrom(text, i, result) ==
    IF i >= Len(text) THEN result
    ELSE LET char == text[i + 1]
             nextChar == IF i + 1 < Len(text) THEN text[i + 2] ELSE -1
         IN IF nextChar = DAKUTEN \/ nextChar = HANDAKUTEN
            THEN LET base == Lookup(halfToFull, char) IN
                 halfToFullKatakanaFrom(text, i + 2,
                     Append(result, IF nextChar = DAKUTEN THEN addDakuten(base)
                                                          ELSE addHandakuten(base)))
            ELSE halfToFullKatakanaFrom(text, i + 1,
                     Append(result, Lookup(halfToFull, char)))

\* halfToFullKatakana as a function of its argument.
halfToFullKatakana(text) == halfToFullKatakanaFrom(text, 0, << >>)

-----------------------------------------------------------------------------
(* Text analysis *)

\* Variant that iterates code units instead of code points.
GetDisplayWidth_CodeUnits(text) ==
    LET Sum[k \in 0..Len(text)] ==
            IF k = 0 THEN 0
            ELSE Sum[k - 1] + (IF text[k] > 255 THEN 2 ELSE 1)
    IN Sum[Len(text)]

getDisplayWidth(text) ==
    LET chars == Spread(text)
        Sum[k \in 0..Len(chars)] ==
            IF k = 0 THEN 0
            ELSE Sum[k - 1] + (IF isFullWidth(chars[k]) THEN 2 ELSE 1)
    IN Sum[Len(chars)]

getCharacterStats(text) ==
    LET chars == Spread(text) IN
    [ total        |-> Len(chars),
      hiragana     |-> Cardinality({k \in DOMAIN chars : isHiragana(chars[k])}),
      katakana     |-> Cardinality({k \in DOMAIN chars : isKatakana(chars[k])}),
      kanji        |-> Cardinality({k \in DOMAIN chars : isKanji(chars[k])}),
      fullWidth    |-> Cardinality({k \in DOMAIN chars : isFullWidth(chars[k])}),
      halfWidth    |-> Cardinality({k \in DOMAIN chars : isHalfWidth(chars[k])}),
      displayWidth |-> getDisplayWidth(text) ]

-----------------------------------------------------------------------------
(* Extraction *)

\* chars.join(''): the concatenation of the elements.
RECURSIVE Join(_)
Join(chars) == IF chars = << >> THEN << >> ELSE Head(chars) \o Join(Tail(chars))

extractHiragana(text) ==
    LET Keep(char) == isHiragana(char) IN Join(SelectSeq(Spread(text), Keep))

\* Variant that filters with the hiragana predicate.
ExtractKatakana_Hiragana(text) ==
    LET Keep(char) == isHiragana(char) IN Join(SelectSeq(Spread(text), Keep))

extractKatakana(text) ==
    LET Keep(char) == isKatakana(char) IN Join(SelectSeq(Spread(text), Keep))

extractKanji(text) ==
    LET Keep(char) == isKanji(char) IN Join(SelectSeq(Spread(text), Keep))

-----------------------------------------------------------------------------
(* Utility functions *)

\* The class [\s\u3000].  In ECMAScript \s is WhiteSpace and LineTerminator:
\* TAB LF VT FF CR SP, U+00A0, U+1680, U+2000..U+200A, U+2028, U+2029,
\* U+202F, U+205F, U+3000 and U+FEFF; U+3000 is named a second time.
SpaceClass ==
    {9, 10, 11, 12, 13, 32, 160, 5760} \cup (8192..8202)
        \cup {8232, 8233, 8239, 8287, 12288, 65279} \cup {12288}

\* Variant that removes the two space characters only.
RemoveAllWhitespace_SpacesOnly(text) ==
    LET Keep(u) == u \notin {32, 12288} IN SelectSeq(text, Keep)

removeAllWhitespace(text) ==
    LET Keep(u) == u \notin SpaceClass IN SelectSeq(text, Keep)

normalizeWhitespace(text) ==
    [k \in 1..Len(text) |-> IF text[k] = 12288 THEN 32 ELSE text[k]]

\* The length of the longest prefix and suffix of text inside the class: what
\* ^[\s\u3000]+ and [\s\u3000]+$ match.
LeadingRun(text) ==
    CHOOSE n \in 0..Len(text) :
        /\ \A k \in 1..n : text[k] \in SpaceClass
        /\ n < Len(text) => text[n + 1] \notin SpaceClass

TrailingRun(text) ==
    CHOOSE n \in 0..Len(text) :
        /\ \A k \in (Len(text) - n + 1)..Len(text) : text[k] \in SpaceClass
        /\ n < Len(text) => text[Len(text) - n] \notin SpaceClass

\* Variant that trims the leading run only.
TrimJapanese_LeadingOnly(text) == SubSeq(text, LeadingRun(text) + 1, Len(text))

\* Variant without the + quantifiers: one character is taken at each end.
TrimJapanese_OneEach(text) ==
    LET a == IF Len(text) > 0 /\ text[1] \in SpaceClass THEN 1 ELSE 0
        rest == SubSeq(text, a + 1, Len(text))
        b == IF Len(rest) > 0 /\ rest[Len(rest)] \in SpaceClass THEN 1 ELSE 0
    IN SubSeq(rest, 1, Len(rest) - b)

\* text.replace(/^[\s\u3000]+|[\s\u3000]+$/g, ''): the first alternative takes
\* the leading run; the second then takes the run that reaches the end.
trimJapanese(text) ==
    LET rest == SubSeq(text, LeadingRun(text) + 1, Len(text))
    IN SubSeq(rest, 1, Len(rest) - TrailingRun(rest))

-----------------------------------------------------------------------------
(* The library as a state machine: a caller holds one argument string and  *)
(* calls one public function on it.  Every function but halfToFullKatakana *)
(* is a single expression and is one step; halfToFullKatakana is a loop    *)
(* with a cursor and is modelled one iteration at a time.                  *)

VARIABLES
    text,       \* the argument of the call
    fn,         \* the function called, "" before the call
    pc,         \* "idle", "scan" (inside the halfToFullKatakana loop), "done"
    retStr,     \* the returned string, for the functions that return one
    retBool,    \* the returned boolean
    retStats,   \* the returned statistics record
    i,          \* halfToFullKatakana: the loop cursor (0-based)
    result,     \* halfToFullKatakana: the output built so far
    visited     \* halfToFullKatakana: the cursor values of the iterations run

vars == << text, fn, pc, retStr, retBool, retStats, i, result, visited >>

NoStats ==
    [ total |-> 0, hiragana |-> 0, katakana |-> 0, kanji |-> 0,
      fullWidth |-> 0, halfWidth |-> 0, displayWidth |-> 0 ]

\* All strings of at most MaxLen code units over the alphabet A.
Strings(A) == UNION { [1..n -> A] : n \in 0..MaxLen }

\* Alphabets.  Classification: A, U+00FF, U+0100, hiragana, katakana, kanji
\* (both BMP ranges), the surrogate pair D840 DC00 of U+20000 and a mark.
ClassifyChars == { 65, 255, 256, 12354, 12450, 19968, 13312, 55360, 56320,
                   DAKUTEN }

\* Conversion: A, z, 0, fullwidth A, the ends of the two kana classes and the
\* hiragana outside the class (U+3040, U+309F), halfwidth KA and the marks.
ConvertChars == { 65, 122, 48, 65313, 12353, 12438, 12352, 12447, 12449, 12534,
                  65398, 65438 }

\* Halfwidth katakana: A, fullwidth KA, halfwidth A, KA, SA, TA, TU, HA, HO
\* and the two marks.
HalfKanaChars == { 65, 12459, 65393, 65398, 65403, 65408, 65410, 65418, 65422,
                   DAKUTEN, HANDAKUTEN }

\* White space: space, tab, line feed, U+00A0, U+3000, A, a hiragana and a
\* mark.
SpaceChars == { 32, 9, 10, 160, 12288, 65, 12354, DAKUTEN }

InitOver(A) ==
    /\ text \in Strings(A)
    /\ fn = ""
    /\ pc = "idle"
    /\ retStr = << >>
    /\ retBool = FALSE
    /\ retStats = NoStats
    /\ i = 0
    /\ result = << >>
    /\ visited = << >>

ReturnBool(name, v) ==
    /\ pc = "idle"
    /\ pc' = "done"
    /\ fn' = name
    /\ retBool' = v
    /\ UNCHANGED << text, retStr, retStats, i, result, visited >>

ReturnStr(name, v) ==
    /\ pc = "idle"
    /\ pc' = "done"
    /\ fn' = name
    /\ retStr' = v
    /\ UNCHANGED << text, retBool, retStats, i, result, visited >>

CallIsHiragana == ReturnBool("isHiragana", isHiragana(text))
CallIsKatakana == ReturnBool("isKatakana", isKatakana(text))
CallIsKanji == ReturnBool("isKanji", isKanji(text))
CallIsFullWidth == ReturnBool("isFullWidth", isFullWidth(text))
CallIsHalfWidth == ReturnBool("isHalfWidth", isHalfWidth(text))
CallIsAllHiragana == ReturnBool("isAllHiragana", isAllHiragana(text))
CallIsAllKatakana == ReturnBool("isAllKatakana", isAllKatakana(text))
CallIsAllKanji == ReturnBool("isAllKanji", isAllKanji(text))

CallHiraganaToKatakana == ReturnStr("hiraganaToKatakana", hiraganaToKatakana(text))
CallKatakanaToHiragana == ReturnStr("katakanaToHiragana", katakanaToHiragana(text))
CallFullToHalfAlphanumeric ==
    ReturnStr("fullToHalfAlphanumeric", fullToHalfAlphanumeric(text))
CallHalfToFullAlphanumeric ==
    ReturnStr("halfToFullAlphanumeric", halfToFullAlphanumeric(text))

CallExtractHiragana == ReturnStr("extractHiragana", extractHiragana(text))
CallExtractKatakana == ReturnStr("extractKatakana", extractKatakana(text))
CallExtractKanji == ReturnStr("extractKanji", extractKanji(text))
CallRemoveAllWhitespace == ReturnStr("removeAllWhitespace", removeAllWhitespace(text))
CallNormalizeWhitespace == ReturnStr("normalizeWhitespace", normalizeWhitespace(text))
CallTrimJapanese == ReturnStr("trimJapanese", trimJapanese(text))

CallGetDisplayWidth ==
    /\ pc = "idle"
    /\ pc' = "done"
    /\ fn' = "getDisplayWidth"
    /\ retStats' = [NoStats EXCEPT !.displayWidth = getDisplayWidth(text)]
    /\ UNCHANGED << text, retStr, retBool, i, result, visited >>

CallGetCharacterStats ==
    /\ pc = "idle"
    /\ pc' = "done"
    /\ fn' = "getCharacterStats"
    /\ retStats' = getCharacterStats(text)
    /\ UNCHANGED << text, retStr, retBool, i, result, visited >>

(* halfToFullKatakana: let result = ''; for (let i = 0; i < text.length; i++) *)

\* text[i] of the source (0-based); the sentinel -1 stands for undefined.
CharAt(k) == IF k >= 0 /\ k < Len(text) THEN text[k + 1] ELSE -1

IsMark(u) == u = DAKUTEN \/ u = HANDAKUTEN

HKEnter ==
    /\ pc = "idle"
    /\ pc' = "scan"
    /\ fn' = "halfToFullKatakana"
    /\ i' = 0
    /\ result' = << >>
    /\ UNCHANGED << text, retStr, retBool, retStats, visited >>

\* Variant of the mark branch without the extra i++: the mark is not skipped.
HKCombine_NoSkip ==
    /\ pc = "scan"
    /\ i < Len(text)
    /\ IsMark(CharAt(i + 1))
    /\ LET base == Lookup(halfToFull, CharAt(i)) IN
       result' = Append(result, IF CharAt(i + 1) = DAKUTEN THEN addDakuten(base)
                                                         ELSE addHandakuten(base))
    /\ i' = i + 1
    /\ visited' = Append(visited, i)
    /\ UNCHANGED << text, fn, pc, retStr, retBool, retStats >>

\* The branch taken when nextChar is a mark: emit one character, skip the mark.
HKCombine ==
    /\ pc = "scan"
    /\ i < Len(text)
    /\ IsMark(CharAt(i + 1))
    /\ LET base == Lookup(halfToFull, CharAt(i)) IN
       result' = Append(result, IF CharAt(i + 1) = DAKUTEN THEN addDakuten(base)
                                                         ELSE addHandakuten(base))
    /\ i' = i + 2
    /\ visited' = Append(visited, i)
    /\ UNCHANGED << text, fn, pc, retStr, retBool, retStats >>

\* Variant of the else branch without the table lookup.
HKSingle_Raw ==
    /\ pc = "scan"
    /\ i < Len(text)
    /\ ~IsMark(CharAt(i + 1))
    /\ result' = Append(result, CharAt(i))
    /\ i' = i + 1
    /\ visited' = Append(visited, i)
    /\ UNCHANGED << text, fn, pc, retStr, retBool, retStats >>

\* The else branch: map the current character alone.
HKSingle ==
    /\ pc = "scan"
    /\ i < Len(text)
    /\ ~IsMark(CharAt(i + 1))
    /\ result' = Append(result, Lookup(halfToFull, CharAt(i)))
    /\ i' = i + 1
    /\ visited' = Append(visited, i)
    /\ UNCHANGED << text, fn, pc, retStr, retBool, retStats >>

HKReturn ==
    /\ pc = "scan"
    /\ i >= Len(text)
    /\ pc' = "done"
    /\ retStr' = result
    /\ UNCHANGED << text, fn, retBool, retStats, i, result, visited >>

Next ==
    \/ CallIsHiragana \/ CallIsKatakana \/ CallIsKanji
    \/ CallIsFullWidth \/ CallIsHalfWidth
    \/ CallIsAllHiragana \/ CallIsAllKatakana \/ CallIsAllKanji
    \/ CallHiraganaToKatakana \/ CallKatakanaToHiragana
    \/ CallFullToHalfAlphanumeric \/ CallHalfToFullAlphanumeric
    \/ CallGetDisplayWidth \/ CallGetCharacterStats
    \/ CallExtractHiragana \/ CallExtractKatakana \/ CallExtractKanji
    \/ CallRemoveAllWhitespace \/ CallNormalizeWhitespace \/ CallTrimJapanese
    \/ HKEnter \/ HKCombine \/ HKSingle \/ HKReturn

\* One specification per alphabet.
Spec == InitOver(ConvertChars) /\ [][Next]_vars
SpecClassify == InitOver(ClassifyChars) /\ [][Next]_vars
SpecHalfKana == InitOver(HalfKanaChars) /\ [][Next]_vars
SpecSpace == InitOver(SpaceChars) /\ [][Next]_vars

\* The loop of halfToFullKatakana is synchronous code: once entered, its
\* next iteration or its return is taken.
SpecHalfKanaLoop ==
    SpecHalfKana /\ WF_vars(HKCombine \/ HKSingle \/ HKReturn)

Done(name) == pc = "done" /\ fn = name

-----------------------------------------------------------------------------
(* Properties *)

\* The characters halfToFullKatakana acts on.
HalfKanaTable == DOMAIN halfToFull

\* Every character of text outside category is at the same index of out.
SameAtSameIndex(category, out) ==
    \A k \in 1..Len(text) :
        text[k] \notin category => (k <= Len(out) /\ out[k] = text[k])

\* C1 as stated: for each of the five converters, every character outside the
\* converter's category appears in the output unchanged and at the index it
\* had in the input.
C1_PassThroughSameIndex ==
    /\ Done("hiraganaToKatakana") => SameAtSameIndex(HiraganaClass, retStr)
    /\ Done("katakanaToHiragana") => SameAtSameIndex(KatakanaClass, retStr)
    /\ Done("fullToHalfAlphanumeric") => SameAtSameIndex(FullAlnumClass, retStr)
    /\ Done("halfToFullAlphanumeric") => SameAtSameIndex(HalfAlnumClass, retStr)
    /\ Done("halfToFullKatakana") => SameAtSameIndex(HalfKanaTable, retStr)

\* The number of loop iterations that started at or before input index k
\* (1-based): the output index of the character emitted for text[k].
EmittedUpTo(k) == Cardinality({m \in 1..Len(visited) : visited[m] < k})

\* C1 amended: the four per-code-unit converters keep the length and leave
\* every character outside their class unchanged at its index; in
\* halfToFullKatakana every character without a table entry that is not
\* followed by a mark is emitted unchanged by its own iteration, so these
\* characters keep their relative order, each moved left by the number of
\* marks consumed before it.
C1_PassThrough ==
    /\ Done("hiraganaToKatakana") =>
          Len(retStr) = Len(text) /\ SameAtSameIndex(HiraganaClass, retStr)
    /\ Done("katakanaToHiragana") =>
          Len(retStr) = Len(text) /\ SameAtSameIndex(KatakanaClass, retStr)
    /\ Done("fullToHalfAlphanumeric") =>
          Len(retStr) = Len(text) /\ SameAtSameIndex(FullAlnumClass, retStr)
    /\ Done("halfToFullAlphanumeric") =>
          Len(retStr) = Len(text) /\ SameAtSameIndex(HalfAlnumClass, retStr)
    /\ Done("halfToFullKatakana") =>
          /\ Len(retStr) = Len(visited)
          /\ \A m \in 1..Len(visited) - 1 : visited[m] < visited[m + 1]
          /\ \A k \in 1..Len(text) :
                (text[k] \notin HalfKanaTable /\ ~IsMark(CharAt(k))) =>
                    LET n == EmittedUpTo(k) IN
                    /\ n >= 1
                    /\ visited[n] = k - 1
                    /\ retStr[n] = text[k]
                    /\ n = k - Cardinality({j \in 1..k : IsMark(text[j])
                                                /\ j - 1 \notin {visited[m] : m \in 1..Len(visited)}})

\* A pass-through character that follows a combined pair, and one left in
\* place by a per-code-unit converter next to a converted one.
C1_Witness ==
    /\ Done("halfToFullKatakana")
    /\ \E k \in 3..Len(text) :
          /\ text[k] \notin HalfKanaTable
          /\ ~IsMark(CharAt(k))
          /\ IsMark(text[k - 1])
          /\ text[k - 2] \in DOMAIN halfToFull
          /\ Len(retStr) < Len(text)

\* The halfwidth bases with a voiced form, by column, and their voiced and
\* semi-voiced fullwidth katakana as laid out in the Unicode katakana block:
\* KA..TI (FF76..FF81) are 30AB, 30AD, ..., TU TE TO (FF82..FF84) are 30C4,
\* 30C6, 30C8, each followed by its voiced form; HA..HO (FF8A..FF8E) are
\* 30CF, 30D2, ..., each followed by its voiced and its semi-voiced form.
IsHaColumn(u) == u >= 65418 /\ u <= 65422
IsDakutenBase(u) == (u >= 65398 /\ u <= 65412) \/ IsHaColumn(u)

Voiced(u) ==
    IF u <= 65409 THEN 12459 + 2 * (u - 65398) + 1
    ELSE IF u <= 65412 THEN 12484 + 2 * (u - 65410) + 1
    ELSE 12495 + 3 * (u - 65418) + 1

SemiVoiced(u) == 12495 + 3 * (u - 65418) + 2

VisitedSet == { visited[m] : m \in 1..Len(visited) }

\* C2: in halfToFullKatakana every KA-, SA-, TA- or HA-column halfwidth base
\* immediately followed by U+FF9E is replaced, with the mark, by the single
\* voiced fullwidth katakana, and every HA-column base immediately followed
\* by U+FF9F by the single semi-voiced one: the base's iteration emits that
\* one character and no iteration runs for the mark.
C2_Combining ==
    Done("halfToFullKatakana") =>
        /\ Len(retStr) = Len(visited)
        /\ \A k \in 1..Len(text) - 1 :
              /\ (IsDakutenBase(text[k]) /\ text[k + 1] = DAKUTEN) =>
                    /\ k - 1 \in VisitedSet
                    /\ k \notin VisitedSet
                    /\ retStr[EmittedUpTo(k)] = Voiced(text[k])
              /\ (IsHaColumn(text[k]) /\ text[k + 1] = HANDAKUTEN) =>
                    /\ k - 1 \in VisitedSet
                    /\ k \notin VisitedSet
                    /\ retStr[EmittedUpTo(k)] = SemiVoiced(text[k])

\* A HA-column base with a handakuten, after the scan has returned.
C2_Witness ==
    /\ Done("halfToFullKatakana")
    /\ \E k \in 1..Len(text) - 1 : IsHaColumn(text[k]) /\ text[k + 1] = HANDAKUTEN
    /\ Len(retStr) = Len(text) - 1

-----------------------------------------------------------------------------
(* The characters (Unicode scalar values) of a string of code units.  A low *)
(* surrogate that follows a high surrogate is the second unit of a pair;    *)
(* every other unit starts a character.                                     *)

StartsChar(k) == ~(k > 1 /\ IsLowSurrogate(text[k]) /\ IsHighSurrogate(text[k - 1]))

CharStarts == { k \in 1..Len(text) : StartsChar(k) }

\* The codepoint of the character that starts at index k.
CodePointAt(k) ==
    IF k < Len(text) /\ IsHighSurrogate(text[k]) /\ IsLowSurrogate(text[k + 1])
    THEN 65536 + (text[k] - 55296) * 1024 + (text[k + 1] - 56320)
    ELSE text[k]

\* The string of the character that starts at index k.
CharStringAt(k) ==
    IF k < Len(text) /\ IsHighSurrogate(text[k]) /\ IsLowSurrogate(text[k + 1])
    THEN << text[k], text[k + 1] >>
    ELSE << text[k] >>

\* text is one character: one scalar value.
IsOneChar ==
    /\ Cardinality(CharStarts) = 1
    /\ CodePointAt(1) >= 65536 \/ ~(IsHighSurrogate(text[1]) \/ IsLowSurrogate(text[1]))

InKanjiRanges(cp) ==
    \/ (cp >= 19968 /\ cp <= 40879)
    \/ (cp >= 13312 /\ cp <= 19903)
    \/ (cp >= 131072 /\ cp <= 173791)

\* C3: isKanji(c) is true exactly when c is non-empty and the codepoint of
\* its first scalar value is in 4E00..9FAF, 3400..4DBF or 20000..2A6DF.
C3_IsKanjiByCodePoint ==
    Done("isKanji") =>
        (retBool <=> (Len(text) > 0 /\ InKanjiRanges(CodePointAt(1))))

\* C4: katakanaToHiragana(hiraganaToKatakana(s)) = s for every s made only
\* of characters in 3041..3096.
C4_KanaRoundTrip ==
    (Done("hiraganaToKatakana") /\ \A k \in 1..Len(text) : text[k] >= 12353 /\ text[k] <= 12438)
        => katakanaToHiragana(retStr) = text

\* Both ends of the range in one converted string.
C4_Witness ==
    /\ Done("hiraganaToKatakana")
    /\ \A k \in 1..Len(text) : text[k] >= 12353 /\ text[k] <= 12438
    /\ \E j, k \in 1..Len(text) : text[j] = 12353 /\ text[k] = 12438
    /\ \A k \in 1..Len(text) : retStr[k] # text[k]

IsAsciiAlnum(u) ==
    \/ (u >= 48 /\ u <= 57)
    \/ (u >= 65 /\ u <= 90)
    \/ (u >= 97 /\ u <= 122)

\* C5: fullToHalfAlphanumeric(halfToFullAlphanumeric(s)) = s for every s
\* made only of ASCII letters and digits.
C5_AlnumRoundTrip ==
    (Done("halfToFullAlphanumeric") /\ \A k \in 1..Len(text) : IsAsciiAlnum(text[k]))
        => fullToHalfAlphanumeric(retStr) = text

\* A letter and a digit in one converted string.
C5_Witness ==
    /\ Done("halfToFullAlphanumeric")
    /\ \A k \in 1..Len(text) : IsAsciiAlnum(text[k])
    /\ \E j, k \in 1..Len(text) : text[j] = 48 /\ text[k] = 122
    /\ \A k \in 1..Len(text) : retStr[k] = text[k] + 65248

\* C6: getCharacterStats(s) has fullWidth + halfWidth = total, and total is
\* the number of characters of s.
C6_WidthPartition ==
    Done("getCharacterStats") =>
        /\ retStats.fullWidth + retStats.halfWidth = retStats.total
        /\ retStats.total = Cardinality(CharStarts)

\* Both widths and a surrogate pair in one string.
C6_Witness ==
    /\ Done("getCharacterStats")
    /\ retStats.fullWidth > 0
    /\ retStats.halfWidth > 0
    /\ retStats.total < Len(text)

\* The script predicates that hold of the character starting at k.
ScriptsAt(k) ==
    { p \in {"hiragana", "katakana", "kanji"} :
        \/ p = "hiragana" /\ isHiragana(CharStringAt(k))
        \/ p = "katakana" /\ isKatakana(CharStringAt(k))
        \/ p = "kanji" /\ isKanji(CharStringAt(k)) }

\* C7: each character counts in at most one of hiragana, katakana, kanji,
\* so their sum is at most total, and equals total exactly when every
\* character satisfies one of the three predicates.
C7_ScriptCounts ==
    Done("getCharacterStats") =>
        LET sum == retStats.hiragana + retStats.katakana + retStats.kanji IN
        /\ \A k \in CharStarts : Cardinality(ScriptsAt(k)) <= 1
        /\ sum = Cardinality({k \in CharStarts : ScriptsAt(k) # {}})
        /\ sum <= retStats.total
        /\ (sum = retStats.total) <=> (\A k \in CharStarts : ScriptsAt(k) # {})

\* One string with equality and, separately reachable, one without: here
\* the three scripts together with nothing else.
C7_Witness ==
    /\ Done("getCharacterStats")
    /\ retStats.hiragana = 1 /\ retStats.katakana = 1 /\ retStats.kanji = 1
    /\ retStats.total = 3

\* 2 for a character above U+00FF, 1 otherwise, summed over the characters.
WidthSum ==
    2 * Cardinality({k \in CharStarts : CodePointAt(k) > 255})
      + Cardinality({k \in CharStarts : CodePointAt(k) <= 255})

\* C8: getDisplayWidth(s) is the sum of 2 per full-width character and 1 per
\* other character, and getCharacterStats(s).displayWidth is the same number
\* and equals 2 * fullWidth + halfWidth.
C8_DisplayWidth ==
    /\ Done("getDisplayWidth") => retStats.displayWidth = WidthSum
    /\ Done("getCharacterStats") =>
          /\ retStats.displayWidth = WidthSum
          /\ retStats.displayWidth = 2 * retStats.fullWidth + retStats.halfWidth

\* A surrogate pair next to a halfwidth character: width 3 from two
\* characters in three code units.
C8_Witness ==
    /\ Done("getDisplayWidth")
    /\ Len(text) = 3
    /\ Cardinality(CharStarts) = 2
    /\ retStats.displayWidth = 3

\* C9: isAllHiragana(s) is true exactly when s is non-empty and every
\* character of s satisfies isHiragana; likewise isAllKatakana with
\* isKatakana and isAllKanji with isKanji.
C9_IsAll ==
    /\ Done("isAllHiragana") =>
          (retBool <=> (Len(text) > 0 /\ \A k \in CharStarts : isHiragana(CharStringAt(k))))
    /\ Done("isAllKatakana") =>
          (retBool <=> (Len(text) > 0 /\ \A k \in CharStarts : isKatakana(CharStringAt(k))))
    /\ Done("isAllKanji") =>
          (retBool <=> (Len(text) > 0 /\ \A k \in CharStarts : isKanji(CharStringAt(k))))

\* isAllKanji answers false on the empty string.
C9_Witness ==
    /\ Done("isAllKanji")
    /\ text = << >>
    /\ retBool = FALSE

\* C10: for every character c, isFullWidth(c) holds exactly when the
\* codepoint of c is above 0xFF, and isHalfWidth(c) is its negation.
C10_WidthNegation ==
    /\ (Done("isFullWidth") /\ IsOneChar) =>
          /\ retBool <=> CodePointAt(1) > 255
          /\ retBool <=> ~isHalfWidth(text)
    /\ (Done("isHalfWidth") /\ IsOneChar) =>
          /\ retBool <=> ~(CodePointAt(1) > 255)
          /\ retBool <=> ~isFullWidth(text)

\* isHalfWidth answers true on U+00FF, the last halfwidth codepoint.
C10_Witness ==
    /\ Done("isHalfWidth")
    /\ text = << 255 >>
    /\ retBool = TRUE

-----------------------------------------------------------------------------
(* Totality and the remaining functions *)

BoolFunctions ==
    { "isHiragana", "isKatakana", "isKanji", "isFullWidth", "isHalfWidth",
      "isAllHiragana", "isAllKatakana", "isAllKanji" }

StringFunctions ==
    { "hiraganaToKatakana", "katakanaToHiragana", "halfToFullKatakana",
      "fullToHalfAlphanumeric", "halfToFullAlphanumeric",
      "extractHiragana", "extractKatakana", "extractKanji",
      "removeAllWhitespace", "normalizeWhitespace", "trimJapanese" }

\* C11: every public function accepts every string and returns (no call is
\* refused and the halfToFullKatakana loop can always step or return); on
\* the empty string every predicate returns false, getDisplayWidth returns
\* 0, getCharacterStats returns all counts 0, and every converter, extractor
\* and whitespace function returns the empty string.
C11_TotalAndEmpty ==
    /\ pc = "idle" =>
          /\ ENABLED CallIsHiragana /\ ENABLED CallIsKatakana /\ ENABLED CallIsKanji
          /\ ENABLED CallIsFullWidth /\ ENABLED CallIsHalfWidth
          /\ ENABLED CallIsAllHiragana /\ ENABLED CallIsAllKatakana
          /\ ENABLED CallIsAllKanji
          /\ ENABLED CallHiraganaToKatakana /\ ENABLED CallKatakanaToHiragana
          /\ ENABLED CallFullToHalfAlphanumeric /\ ENABLED CallHalfToFullAlphanumeric
          /\ ENABLED CallGetDisplayWidth /\ ENABLED CallGetCharacterStats
          /\ ENABLED CallExtractHiragana /\ ENABLED CallExtractKatakana
          /\ ENABLED CallExtractKanji
          /\ ENABLED CallRemoveAllWhitespace /\ ENABLED CallNormalizeWhitespace
          /\ ENABLED CallTrimJapanese
          /\ ENABLED HKEnter
    /\ pc = "scan" => ENABLED (HKCombine \/ HKSingle \/ HKReturn)
    /\ (pc = "done" /\ text = << >>) =>
          /\ fn \in BoolFunctions => retBool = FALSE
          /\ fn \in StringFunctions => retStr = << >>
          /\ fn = "getDisplayWidth" => retStats.displayWidth = 0
          /\ fn = "getCharacterStats" => retStats = NoStats
          /\ fn \in BoolFunctions \cup StringFunctions
                    \cup {"getDisplayWidth", "getCharacterStats"}

\* isAllHiragana has returned on the empty string.
C11_Witness ==
    /\ Done("isAllHiragana")
    /\ text = << >>
    /\ retBool = FALSE

\* C12 as stated: for every s with isAllHiragana(s), hiraganaToKatakana(s)
\* has the length of s and is all katakana.
C12_AllHiraganaToAllKatakana ==
    (Done("hiraganaToKatakana") /\ isAllHiragana(text)) =>
        (Len(retStr) = Len(text) /\ isAllKatakana(retStr))

\* C12 amended: for every non-empty s made only of characters in 3041..3096
\* (the hiragana that the converter shifts), hiraganaToKatakana(s) has the
\* length of s and is all katakana.
C12_ClassToAllKatakana ==
    (Done("hiraganaToKatakana") /\ Len(text) > 0
        /\ \A k \in 1..Len(text) : text[k] >= 12353 /\ text[k] <= 12438) =>
        (Len(retStr) = Len(text) /\ isAllKatakana(retStr))

\* A string of the two ends of the class, converted to katakana.
C12_Witness ==
    /\ Done("hiraganaToKatakana")
    /\ isAllHiragana(text)
    /\ \E j, k \in 1..Len(text) : text[j] = 12353 /\ text[k] = 12438
    /\ \A k \in 1..Len(text) : text[k] \in {12353, 12438}
    /\ isAllKatakana(retStr)

-----------------------------------------------------------------------------
(* halfToFullKatakana, character by character *)

\* The image of a character under the half-to-full table, the character
\* itself when the table has no entry for it.
TableImage(u) == IF u \in DOMAIN halfToFull THEN halfToFull[u] ELSE u

\* C13 as stated: every character not immediately followed by U+FF9E or
\* U+FF9F is emitted as its table image, or unchanged without an entry.
C13_EveryUnmarkedEmitted ==
    Done("halfToFullKatakana") =>
        \A k \in 1..Len(text) :
            ~IsMark(CharAt(k)) =>
                \E n \in 1..Len(retStr) :
                    visited[n] = k - 1 /\ retStr[n] = TableImage(text[k])

\* C13 amended: every character on which the cursor comes to stand (every
\* character but a mark consumed together with the character before it)
\* and that is not immediately followed by U+FF9E or U+FF9F is emitted as
\* its table image, or unchanged without an entry.
C13_VisitedUnmarkedEmitted ==
    Done("halfToFullKatakana") =>
        /\ Len(retStr) = Len(visited)
        /\ \A k \in 1..Len(text) :
              (k - 1 \in VisitedSet /\ ~IsMark(CharAt(k))) =>
                  retStr[EmittedUpTo(k)] = TableImage(text[k])
        /\ \A k \in 1..Len(text) :
              k - 1 \notin VisitedSet =>
                  (k > 1 /\ IsMark(text[k]) /\ k - 2 \in VisitedSet)

\* A table character and a character without an entry, each emitted alone.
C13_Witness ==
    /\ Done("halfToFullKatakana")
    /\ \E j, k \in 1..Len(text) :
          /\ j - 1 \in VisitedSet /\ ~IsMark(CharAt(j)) /\ text[j] \in DOMAIN halfToFull
          /\ k - 1 \in VisitedSet /\ ~IsMark(CharAt(k)) /\ text[k] \notin DOMAIN halfToFull
    /\ Len(retStr) = Len(text)

-----------------------------------------------------------------------------
(* Extraction and white space *)

\* The code units of the characters that start at the indices in starts.
UnitsOf(starts) ==
    starts \cup { k + 1 : k \in { j \in starts : Len(CharStringAt(j)) = 2 } }

\* The subsequence of text at the indices in units, in their order.
SubseqAt(units) ==
    [n \in 1..Cardinality(units) |->
        text[CHOOSE j \in units : Cardinality({m \in units : m < j}) = n - 1]]

\* C14: extractHiragana(s) is the subsequence of the characters of s that
\* satisfy isHiragana, in their order, with no separator; likewise
\* extractKatakana with isKatakana and extractKanji with isKanji.
C14_Extract ==
    /\ Done("extractHiragana") =>
          retStr = SubseqAt(UnitsOf({k \in CharStarts : isHiragana(CharStringAt(k))}))
    /\ Done("extractKatakana") =>
          retStr = SubseqAt(UnitsOf({k \in CharStarts : isKatakana(CharStringAt(k))}))
    /\ Done("extractKanji") =>
          retStr = SubseqAt(UnitsOf({k \in CharStarts : isKanji(CharStringAt(k))}))

\* Two different kanji kept in order around a dropped character.
C14_Witness ==
    /\ Done("extractKanji")
    /\ Len(text) = 3
    /\ ~isKanji(<< text[2] >>)
    /\ Len(retStr) = 2
    /\ retStr[1] = text[1] /\ retStr[2] = text[3] /\ text[1] # text[3]

\* ASCII white space and U+3000.
AsciiOrWideSpace == {9, 10, 11, 12, 13, 32, 12288}

\* The white space of ECMAScript (WhiteSpace and LineTerminator), which
\* contains AsciiOrWideSpace.
ScriptWhiteSpace ==
    AsciiOrWideSpace \cup {160, 5760, 8232, 8233, 8239, 8287, 65279}
        \cup (8192..8202)

\* C15 as stated: removeAllWhitespace(s) is s without its ASCII white space
\* and U+3000 characters, every other character kept in order.
C15_RemovesAsciiAndWide ==
    Done("removeAllWhitespace") =>
        retStr = SubseqAt({k \in 1..Len(text) : text[k] \notin AsciiOrWideSpace})

\* C15 amended: removeAllWhitespace(s) is s without the characters that \s
\* matches (ASCII white space, U+00A0, U+1680, U+2000..U+200A, U+2028,
\* U+2029, U+202F, U+205F, U+3000, U+FEFF), every other character kept in
\* order.
C15_RemovesWhiteSpace ==
    Done("removeAllWhitespace") =>
        retStr = SubseqAt({k \in 1..Len(text) : text[k] \notin ScriptWhiteSpace})

\* A tab and a no-break space removed around a kept character.
C15_Witness ==
    /\ Done("removeAllWhitespace")
    /\ \E j, k \in 1..Len(text) : text[j] = 9 /\ text[k] = 160
    /\ Len(retStr) = 1

\* out is text without a leading and a trailing run of characters of W, and
\* neither starts nor ends with a character of W: the runs are maximal.
IsTrimOf(out, W) ==
    \E a, b \in 0..Len(text) :
        /\ a + b <= Len(text)
        /\ out = SubSeq(text, a + 1, Len(text) - b)
        /\ \A k \in 1..a : text[k] \in W
        /\ \A k \in (Len(text) - b + 1)..Len(text) : text[k] \in W
        /\ out # << >> => (out[1] \notin W /\ out[Len(out)] \notin W)

\* C16 as stated: trimJapanese(s) is s without its maximal leading and
\* trailing runs of ASCII white space or U+3000; what lies between is
\* unchanged and the result neither starts nor ends with such a character.
C16_TrimsAsciiAndWide ==
    Done("trimJapanese") => IsTrimOf(retStr, AsciiOrWideSpace)

\* C16 amended: trimJapanese(s) is s without its maximal leading and
\* trailing runs of characters that \s matches (ASCII white space, U+3000
\* and the other Unicode white space such as U+00A0); what lies between is
\* unchanged and the result neither starts nor ends with such a character.
C16_TrimsWhiteSpace ==
    Done("trimJapanese") => IsTrimOf(retStr, ScriptWhiteSpace)

\* A character kept between a trimmed U+3000 and a trimmed space.
C16_Witness ==
    /\ Done("trimJapanese")
    /\ Len(text) = 3
    /\ text[1] = 12288 /\ text[3] = 32
    /\ retStr = << text[2] >>

\* C17: trimJapanese(trimJapanese(s)) = trimJapanese(s) and
\* removeAllWhitespace(removeAllWhitespace(s)) = removeAllWhitespace(s).
C17_Idempotent ==
    /\ Done("trimJapanese") => trimJapanese(retStr) = retStr
    /\ Done("removeAllWhitespace") => removeAllWhitespace(retStr) = retStr

\* A trim that took two characters at one end and left a character.
C17_Witness ==
    /\ Done("trimJapanese")
    /\ Len(text) = 3
    /\ Len(retStr) = 1
    /\ retStr[1] = text[3]

-----------------------------------------------------------------------------
(* halfToFullKatakana: marks that do not apply, the cursor, idempotence *)

\* The mark after text[k] does not apply: the table image of text[k] has no
\* entry in the table of that mark.
MarkDoesNotApply(k) ==
    \/ CharAt(k) = DAKUTEN /\ TableImage(text[k]) \notin DOMAIN dakutenMap
    \/ CharAt(k) = HANDAKUTEN /\ TableImage(text[k]) \notin DOMAIN handakutenMap

\* C18 as stated: when a character is immediately followed by a mark that
\* does not apply to it, the mark is consumed without output and the
\* character is emitted as its table image (itself without an entry).
C18_EveryInapplicableMark ==
    Done("halfToFullKatakana") =>
        \A k \in 1..Len(text) :
            MarkDoesNotApply(k) =>
                /\ k \notin VisitedSet
                /\ \E n \in 1..Len(retStr) :
                      visited[n] = k - 1 /\ retStr[n] = TableImage(text[k])

\* C18 amended: the same of every character on which the cursor comes to
\* stand, that is every character but a mark consumed together with the
\* character before it.
C18_VisitedInapplicableMark ==
    Done("halfToFullKatakana") =>
        /\ Len(retStr) = Len(visited)
        /\ \A k \in 1..Len(text) :
              (k - 1 \in VisitedSet /\ MarkDoesNotApply(k)) =>
                  /\ k \notin VisitedSet
                  /\ retStr[EmittedUpTo(k)] = TableImage(text[k])
                  /\ EmittedUpTo(k + 1) = EmittedUpTo(k)

\* A table character and a dakuten that does not apply to it, then a
\* character of its own.
C18_Witness ==
    /\ Done("halfToFullKatakana")
    /\ Len(text) = 3
    /\ text[1] \in DOMAIN halfToFull
    /\ text[2] = DAKUTEN
    /\ MarkDoesNotApply(1)
    /\ retStr = << halfToFull[text[1]], TableImage(text[3]) >>

\* C19: the scan is a single left-to-right pass: every iteration moves the
\* cursor by exactly two when the next character is U+FF9E or U+FF9F and by
\* exactly one otherwise, appends exactly one character to the output, the
\* cursor never decreases, and the scan ends, for every input, with the
\* cursor at or past the end of the input.
C19_SinglePass ==
    /\ [][ /\ (pc = "scan" /\ pc' = "scan") =>
                /\ i' = (IF IsMark(CharAt(i + 1)) THEN i + 2 ELSE i + 1)
                /\ Len(result') = Len(result) + 1
                /\ SubSeq(result', 1, Len(result)) = result
           /\ i' >= i ]_vars
    /\ [](Done("halfToFullKatakana") => (i >= Len(text) /\ retStr = result))
    /\ (pc = "scan") ~> (Done("halfToFullKatakana") /\ i >= Len(text))

\* A scan that moved by two and then by one and returned at the end.
C19_Witness ==
    /\ Done("halfToFullKatakana")
    /\ visited = << 0, 2 >>
    /\ i = 3
    /\ Len(text) = 3
    /\ Len(retStr) = 2

\* The halfwidth katakana block U+FF61..U+FF9F, marks included.
HalfKanaBlock == 65377..65439

\* C20: the output of halfToFullKatakana(s) has no character of the
\* halfwidth katakana block U+FF61..U+FF9F, hence
\* halfToFullKatakana(halfToFullKatakana(s)) = halfToFullKatakana(s).
C20_NoHalfKanaLeft ==
    Done("halfToFullKatakana") =>
        /\ \A n \in 1..Len(retStr) : retStr[n] \notin HalfKanaBlock
        /\ retStr = halfToFullKatakana(text)
        /\ halfToFullKatakana(retStr) = retStr

\* An input of a lone mark and a base with its mark: all three
\* code units are of the block and none is left.
C20_Witness ==
    /\ Done("halfToFullKatakana")
    /\ Len(text) = 3
    /\ \A k \in 1..3 : text[k] \in HalfKanaBlock
    /\ IsMark(text[1])
    /\ IsMark(text[3])
    /\ Len(retStr) = 2

====
